---- MODULE Spec2Model ----
(***************************************************************************)
(* Model of src/streamlit_app.py: the uniform-continuity checker.          *)
(*                                                                         *)
(* One script run per user submission: the two bound texts are normalised, *)
(* parsed and validated, check_uniform_continuity classifies the function, *)
(* the verdict and its justification are rendered, and the chart is drawn. *)
(* The symbolic engine (parse_expr on the function text, singularities,    *)
(* limit) and the chart back end are external: what the engine answers in  *)
(* one submission is drawn nondeterministically and recorded in `engine`;  *)
(* whether the plotting block raises is drawn in the Plot step.            *)
(*                                                                         *)
(* Verdict strings of the source are written in ASCII:                     *)
(*   "UC"      the verdict returned at lines 56 and 84                     *)
(*   "NOT_UC"  the verdict returned at lines 54 and 81                     *)
(*   "CANNOT"  the verdict returned at line 48                             *)
(*   "ERROR"   the verdict returned at line 38                             *)
(***************************************************************************)
EXTENDS Integers, Sequences, FiniteSets, TLC

\* Bound texts "0" .. "MaxDigit" are among the texts a user may type.
MaxDigit == 2

\* The engine's singularity sets are the subsets of the integers 0 .. MaxPoint.
MaxPoint == 1

----------------------------------------------------------------------------
(* Symbolic values (SymPy objects) of the bounds and the singular points.  *)
(* kind: "Integer" (value n), "Float" (n * 10^18), "pi", "E", "oo", "-oo", *)
(* "Symbol" (a free symbol: neither real nor infinite).                    *)

SymValue(k, n) == [kind |-> k, n |-> n]

NoValue == SymValue("unset", 0)

is_real(v) == v.kind \in {"Integer", "Float", "pi", "E"}

is_infinite(v) == v.kind \in {"oo", "-oo"}

(* A 53-bit binary floating-point number, as SymPy's evalf() and Python's  *)
(* float hold it: hi * 10^18 + lo / 1000, with hi in 0..1.                 *)
Num(h, l) == [hi |-> h, lo |-> l]

\* v.evalf() of a real value v (three decimals of pi and e are kept).
evalf(v) ==
    CASE v.kind = "Integer" -> Num(0, 1000 * v.n)
      [] v.kind = "Float"   -> Num(v.n, 0)
      [] v.kind = "pi"      -> Num(0, 3142)
      [] v.kind = "E"       -> Num(0, 2718)

NumLess(x, y) == x.hi < y.hi \/ (x.hi = y.hi /\ x.lo < y.lo)

NumGeq(x, y) == ~NumLess(x, y)

(* The order of the extended reals, as `p in Interval(a, b)` uses it.      *)
ExtLeq(u, v) ==
    \/ u.kind = "-oo"
    \/ v.kind = "oo"
    \/ /\ is_real(u)
       /\ is_real(v)
       /\ ~NumLess(evalf(v), evalf(u))

\* sympy.latex(v), as embedded in the justification strings.
latex(v) ==
    CASE v.kind = "Integer" -> <<"int", v.n>>
      [] v.kind = "Float"   -> <<"1.0 \\cdot 10^{18}", v.n>>
      [] v.kind = "pi"      -> <<"\\pi", 0>>
      [] v.kind = "E"       -> <<"e", 0>>
      [] v.kind = "oo"      -> <<"\\infty", 0>>
      [] v.kind = "-oo"     -> <<"-\\infty", 0>>
      [] OTHER              -> <<"symbol", 0>>

----------------------------------------------------------------------------
(* Bound texts are sequences of characters.                                *)

DigitChars == <<"0", "1", "2", "3", "4", "5", "6", "7", "8", "9">>

BoundTexts ==
    { <<"-", "i", "n", "f">>, <<"i", "n", "f">>, <<"P", "i">>, <<"e">>,
      <<"1", "e", "1", "8">>, <<"x">>, <<"(">> }
    \cup { <<DigitChars[d + 1]>> : d \in 0..MaxDigit }

\* str.lower() on one character.
LowerChar(c) ==
    CASE c = "I" -> "i"
      [] c = "N" -> "n"
      [] c = "F" -> "f"
      [] c = "E" -> "e"
      [] c = "P" -> "p"
      [] c = "X" -> "x"
      [] OTHER   -> c

lower(s) == [i \in 1..Len(s) |-> LowerChar(s[i])]

StartsWith(s, old) ==
    /\ Len(old) <= Len(s)
    /\ SubSeq(s, 1, Len(old)) = old

\* str.replace(old, new): left to right, non-overlapping occurrences.
RECURSIVE replace(_, _, _)
replace(s, old, new) ==
    IF s = <<>> THEN <<>>
    ELSE IF StartsWith(s, old)
         THEN new \o replace(SubSeq(s, Len(old) + 1, Len(s)), old, new)
         ELSE <<Head(s)>> \o replace(Tail(s), old, new)

\* a_str.lower().replace('inf', 'oo').replace('e', 'E')
NormaliseBound(s) ==
    replace(replace(lower(s), <<"i", "n", "f">>, <<"o", "o">>), <<"e">>, <<"E">>)

DigitOf(c) == CHOOSE d \in 0..9 : DigitChars[d + 1] = c

IsDigit(c) == \E d \in 0..9 : DigitChars[d + 1] = c

IsLetter(c) == c \in {"a", "b", "c", "x", "y", "z", "o", "p", "i", "n", "f", "E"}

(* parse_expr(text, local_dict={"oo": oo, "E": E, "pi": pi}) on a          *)
(* normalised bound text: the value, or the exception raised.              *)
ParseBound(s) ==
    LET value(v) == [ok |-> TRUE, val |-> v]
    IN  IF s = <<"o", "o">> THEN value(SymValue("oo", 0))
        ELSE IF s = <<"-", "o", "o">> THEN value(SymValue("-oo", 0))
        ELSE IF s = <<"p", "i">> THEN value(SymValue("pi", 0))
        ELSE IF s = <<"E">> THEN value(SymValue("E", 0))
        ELSE IF s = <<"1", "E", "1", "8">> THEN value(SymValue("Float", 1))
        ELSE IF Len(s) = 1 /\ IsDigit(s[1])
             THEN value(SymValue("Integer", DigitOf(s[1])))
        ELSE IF Len(s) >= 1 /\ \A i \in 1..Len(s) : IsLetter(s[i])
             THEN value(SymValue("Symbol", 0))
        ELSE [ok |-> FALSE, val |-> NoValue]

\* A comparison with > in place of >=: equal bounds pass.
OrderingRejected_Strict(a, b) ==
    /\ ~is_infinite(a)
    /\ ~is_infinite(b)
    /\ NumLess(evalf(b), evalf(a))

\* Lines 128-129: both bounds finite and a.evalf() >= b.evalf().
OrderingRejected(a, b) ==
    /\ ~is_infinite(a)
    /\ ~is_infinite(b)
    /\ NumGeq(evalf(a), evalf(b))

\* Line 124: a bound that is neither real nor infinite raises ValueError.
NotRealOrInfinite(a, b) ==
    \/ ~(is_real(a) \/ is_infinite(a))
    \/ ~(is_real(b) \/ is_infinite(b))

(* Lines 115-135: the outcome of parsing and validating the two bound      *)
(* texts: "ok" with the two values, "parse_error" (the except branch) or   *)
(* "order_error" (the st.error / st.stop() of lines 130-131).              *)
ValidateBounds(a_text, b_text) ==
    LET pa == ParseBound(NormaliseBound(a_text))
        pb == ParseBound(NormaliseBound(b_text))
        failed == [outcome |-> "parse_error", a |-> NoValue, b |-> NoValue]
    IN  IF ~pa.ok \/ ~pb.ok THEN failed
        ELSE IF NotRealOrInfinite(pa.val, pb.val) THEN failed
        ELSE IF OrderingRejected(pa.val, pb.val)
             THEN [outcome |-> "order_error", a |-> pa.val, b |-> pb.val]
             ELSE [outcome |-> "ok", a |-> pa.val, b |-> pb.val]

----------------------------------------------------------------------------
(* The function text and the symbolic engine.                              *)

FuncTexts == {"sin(x)", "0", "sin(x"}

IntervalTypes == {"[a, b]", "(a, b)", "[a, b)", "(a, b]"}

\* A parsed expression (by its text), or Python's None.
Expr(text) == [none |-> FALSE, srepr |-> text]

NoneExpr == [none |-> TRUE, srepr |-> "None"]

(* Line 36: parse_expr(func_str, local_dict={'x': x},                      *)
(* transformations='all'): the expression, or the exception's message.     *)
ParseFunc(func_str) ==
    IF func_str = "sin(x"
    THEN [ok |-> FALSE, f |-> NoneExpr, msg |-> "SyntaxError: unexpected EOF"]
    ELSE [ok |-> TRUE, f |-> Expr(func_str), msg |-> ""]

\* bool(func_sympy), line 147: None and the number zero are false.
Truthy(f) == ~f.none /\ f.srepr # "0"

\* The points the engine may report as singular.
Points == { SymValue("Integer", n) : n \in 0..MaxPoint }

(* What sympy.singularities(f, x) does in one call: raise, or return a     *)
(* finite set of points.                                                   *)
SingOutcomes ==
    [raises : {TRUE}, set : {{}}] \cup [raises : {FALSE}, set : SUBSET Points]

(* What sympy.limit(f, x, c, dir) does in one call: raise; return a value  *)
(* whose is_infinite is True; return a finite value; return a value whose  *)
(* is_infinite is None (an unevaluated limit, an accumulation bound).      *)
LimOutcomes == {"raises", "infinite", "finite", "undetermined"}

\* The engine's answers in one call of check_uniform_continuity.
Engines == [sing : SingOutcomes, lim_a : LimOutcomes, lim_b : LimOutcomes]

NoEngine ==
    [sing |-> [raises |-> TRUE, set |-> {}], lim_a |-> "raises", lim_b |-> "raises"]

\* Lines 40-43: the singularity set, or [] when the computation raises.
Discontinuities(sing) == IF sing.raises THEN {} ELSE sing.set

\* Iteration order of a SymPy FiniteSet of numbers: ascending.
RECURSIVE Iterate(_)
Iterate(S) ==
    IF S = {} THEN <<>>
    ELSE LET m == CHOOSE x \in S : \A y \in S : ExtLeq(x, y)
         IN  <<m>> \o Iterate(S \ {m})

\* `and` in place of `or`: one infinite bound passes.
AnyInfinite_BothRequired(a, b) == is_infinite(a) /\ is_infinite(b)

\* Line 46: a_sym.is_infinite or b_sym.is_infinite.
AnyInfinite(a, b) == is_infinite(a) \/ is_infinite(b)

\* Only the upper bound is compared: points below a count as inside.
InInterval_UpperOnly(p, a, b) == ExtLeq(p, b)

\* The open interval in place of the closed one: the endpoints are missed.
InInterval_Open(p, a, b) == ExtLeq(a, p) /\ ExtLeq(p, b) /\ p # a /\ p # b

\* Line 52: p in sympy.Interval(a_sym, b_sym).
InInterval(p, a, b) == ExtLeq(a, p) /\ ExtLeq(p, b)

\* The left endpoint is checked for every tag but the closed one.
LeftCheckNeeded_EveryOpenTag(interval_type) == interval_type # "[a, b]"

\* Line 63: the tag has an open left endpoint.
LeftCheckNeeded(interval_type) == interval_type \in {"(a, b)", "(a, b]"}

\* The right endpoint is checked whatever the left check found.
RightCheckNeeded_IgnoresVerdict(is_uc, interval_type) ==
    interval_type \in {"(a, b)", "[a, b)"}

\* Line 72: still undecided, and the tag has an open right endpoint.
RightCheckNeeded(is_uc, interval_type) ==
    is_uc /\ interval_type \in {"(a, b)", "[a, b)"}

\* An exception of the limit call is taken for a divergence.
LimitIsInfinite_OrRaised(outcome) == outcome \in {"infinite", "raises"}

(* Lines 64-69 and 73-78: the limit call's outcome makes is_uc False only  *)
(* when it returned a value whose is_infinite is True; an exception is     *)
(* passed over.                                                            *)
LimitIsInfinite(outcome) == outcome = "infinite"

Reason(kind, args, msg) == [kind |-> kind, args |-> args, msg |-> msg]

NoReason == Reason("unset", <<>>, "")

Ret(result, reason, f, calls) ==
    [result |-> result, reason |-> reason, f |-> f, calls |-> calls]

\* Lines 51-56: the loop over the discontinuities, in iteration order.
RECURSIVE ClosedLoop(_, _, _, _, _)
ClosedLoop(todo, a, b, f, calls) ==
    IF todo = <<>>
    THEN Ret("UC", Reason("heine_cantor", <<latex(a), latex(b)>>, ""), f, calls)
    ELSE IF InInterval(Head(todo), a, b)
         THEN Ret("NOT_UC",
                  Reason("discontinuous_at",
                         <<latex(a), latex(b), latex(Head(todo))>>, ""),
                  f, calls)
         ELSE ClosedLoop(Tail(todo), a, b, f, calls)

\* Lines 57-84: the open-endpoint checks.
OpenCase(interval_type, a, b, f, eng, calls) ==
    LET left == LeftCheckNeeded(interval_type)
        left_fired == left /\ LimitIsInfinite(eng.lim_a)
        is_uc1 == ~left_fired
        calls1 == IF left THEN Append(calls, "limit_a") ELSE calls
        right == RightCheckNeeded(is_uc1, interval_type)
        right_fired == right /\ LimitIsInfinite(eng.lim_b)
        is_uc2 == is_uc1 /\ ~right_fired
        calls2 == IF right THEN Append(calls1, "limit_b") ELSE calls1
        reason == IF right_fired THEN Reason("right_diverges", <<latex(b)>>, "")
                  ELSE IF left_fired THEN Reason("left_diverges", <<latex(a)>>, "")
                  ELSE Reason("finite_limits", <<>>, "")
    IN  IF ~is_uc2
        THEN Ret("NOT_UC", reason, f, calls2)
        ELSE Ret("UC", Reason("finite_limits", <<>>, ""), f, calls2)

(* Lines 33-86: check_uniform_continuity(func_str, interval_type, a_sym,   *)
(* b_sym), with the engine's answers eng: the verdict, the justification,  *)
(* the expression, and the engine calls made, in order.                    *)
check_uniform_continuity(func_str, interval_type, a, b, eng) ==
    LET parsed == ParseFunc(func_str)
        calls == <<"parse_expr", "singularities">>
    IN  IF ~parsed.ok
        THEN Ret("ERROR", Reason("parse_error", <<>>, parsed.msg), NoneExpr,
                 <<"parse_expr">>)
        ELSE IF interval_type = "[a, b]"
             THEN IF AnyInfinite(a, b)
                  THEN Ret("CANNOT", Reason("closed_infinite", <<>>, ""),
                           parsed.f, calls)
                  ELSE ClosedLoop(Iterate(Discontinuities(eng.sing)), a, b,
                                  parsed.f, calls)
             ELSE OpenCase(interval_type, a, b, parsed.f, eng, calls)

----------------------------------------------------------------------------
(* The plotting window (lines 151-163) and the markers (lines 175-176).    *)

\* float(v.evalf()): a 53-bit Float converts to a Python float as it is.
ToFloat(v) == evalf(v)

(* The spacing, in thousandths, of the binary64 numbers around             *)
(* h * 10^18 + l / 1000: 128 between 2^59 and 2^60; below 2^53 it is finer *)
(* than the thousandth the model keeps.                                    *)
Ulp(h) == IF h = 0 THEN 1 ELSE 128000

\* Round v to the nearest multiple of u, ties to the even multiple.
RoundNearest(v, u) ==
    LET q == v \div u
        r == v % u
    IN  IF 2 * r < u THEN q * u
        ELSE IF 2 * r > u THEN (q + 1) * u
        ELSE IF q % 2 = 0 THEN q * u
        ELSE (q + 1) * u

\* Python's float addition x + d (d in thousandths), rounded to nearest.
FloatAdd(x, d) == Num(x.hi, RoundNearest(x.lo + d, Ulp(x.hi)))

\* Lines 151-163: plot_a_num and plot_b_num.
PlotWindow(a, b) ==
    IF is_infinite(a) /\ is_infinite(b)
    THEN [lo |-> Num(0, -10000), hi |-> Num(0, 10000)]
    ELSE IF is_infinite(a)
         THEN [lo |-> FloatAdd(ToFloat(b), -20000), hi |-> ToFloat(b)]
    ELSE IF is_infinite(b)
         THEN [lo |-> ToFloat(a), hi |-> FloatAdd(ToFloat(a), 20000)]
    ELSE [lo |-> ToFloat(a), hi |-> ToFloat(b)]

\* Lines 175-176: ax.axvline at a bound that is not infinite.
MarkerAt(bound) == ~is_infinite(bound)

NoChart ==
    [lo |-> Num(0, 0), hi |-> Num(0, 0), marker_a |-> FALSE, marker_b |-> FALSE,
     attempted |-> FALSE, drawn |-> FALSE]

----------------------------------------------------------------------------
(* What the page shows: the elements rendered in this script run, in       *)
(* order. Each is a Streamlit call, its text and (for st.info) the         *)
(* justification.                                                          *)

Element(widget, text, why) == [widget |-> widget, text |-> text, reason |-> why]

\* Lines 140-142: the banner's kind follows the verdict.
Banner(verdict) ==
    Element(IF verdict = "UC" THEN "success"
            ELSE IF verdict = "NOT_UC" THEN "error"
            ELSE "warning",
            verdict, NoReason)

\* Lines 140-145: the banner, the heading and the justification.
VerdictDisplay(verdict, why) ==
    <<Banner(verdict), Element("markdown", "evidence", NoReason),
      Element("info", "reason", why)>>

\* The plot is attempted without the test of line 147.
ShouldPlot_Unguarded(f) == TRUE

\* Line 147: if func_sympy.
ShouldPlot(f) == Truthy(f)

\* Lines 148 and 193: the heading and the chart.
PlotSuccess(shown) ==
    shown \o <<Element("markdown", "graph", NoReason),
               Element("pyplot", "fig", NoReason)>>

\* The plotting error replaces what the page showed.
PlotFailure_ReplacesPage(shown) ==
    <<Element("markdown", "graph", NoReason),
      Element("error", "plot_error", NoReason)>>

\* Lines 148 and 194-195: the heading and the plotting error message.
PlotFailure(shown) ==
    shown \o <<Element("markdown", "graph", NoReason),
               Element("error", "plot_error", NoReason)>>

\* Line 130 and line 134: the inline error of a rejected submission.
BoundError(outcome) == <<Element("error", outcome, NoReason)>>

----------------------------------------------------------------------------
VARIABLES
    pc,             \* where the script run stands
    func_input,     \* the function text field
    a_str, b_str,   \* the two bound text fields
    interval_type,  \* the radio selection
    a_sym, b_sym,   \* the parsed bounds
    engine,         \* the engine's answers in this submission
    result, reason, func_sympy,   \* line 138
    calls,          \* the engine calls check_uniform_continuity made
    chart,          \* the plotting window and markers
    screen          \* the elements rendered in this run

widgets == <<func_input, a_str, b_str, interval_type>>

outputs == <<a_sym, b_sym, engine, result, reason, func_sympy, calls, chart>>

vars == <<pc, widgets, outputs, screen>>

\* Lines 96-110: the widgets' default values; nothing submitted yet.
Init ==
    /\ pc = "idle"
    /\ func_input = "sin(x)"
    /\ a_str = <<"-", "i", "n", "f">>
    /\ b_str = <<"i", "n", "f">>
    /\ interval_type = "(a, b)"
    /\ a_sym = NoValue
    /\ b_sym = NoValue
    /\ engine = NoEngine
    /\ result = "unset"
    /\ reason = NoReason
    /\ func_sympy = NoneExpr
    /\ calls = <<>>
    /\ chart = NoChart
    /\ screen = <<>>

(* The user edits one input field (a script run with submitted = False,    *)
(* which renders no result).                                               *)
EditFunction(f) ==
    /\ pc = "idle"
    /\ func_input' = f
    /\ UNCHANGED <<pc, a_str, b_str, interval_type, outputs, screen>>

EditLower(a) ==
    /\ pc = "idle"
    /\ a_str' = a
    /\ UNCHANGED <<pc, func_input, b_str, interval_type, outputs, screen>>

EditUpper(b) ==
    /\ pc = "idle"
    /\ b_str' = b
    /\ UNCHANGED <<pc, func_input, a_str, interval_type, outputs, screen>>

SelectType(t) ==
    /\ pc = "idle"
    /\ interval_type' = t
    /\ UNCHANGED <<pc, func_input, a_str, b_str, outputs, screen>>

(* The user presses the button: lines 114-135 parse and validate the       *)
(* bounds; a rejected submission shows one error and stops.                *)
Submit ==
    /\ pc = "idle"
    /\ LET v == ValidateBounds(a_str, b_str)
       IN  IF v.outcome = "ok"
           THEN /\ a_sym' = v.a
                /\ b_sym' = v.b
                /\ screen' = <<>>
                /\ pc' = "classify"
           ELSE /\ a_sym' = v.a
                /\ b_sym' = v.b
                /\ screen' = BoundError(v.outcome)
                /\ pc' = "stopped"
    /\ UNCHANGED <<widgets, engine, result, reason, func_sympy, calls, chart>>

\* Line 138: the call of check_uniform_continuity.
Classify ==
    /\ pc = "classify"
    /\ \E eng \in Engines :
         LET r == check_uniform_continuity(func_input, interval_type,
                                           a_sym, b_sym, eng)
         IN  /\ engine' = eng
             /\ result' = r.result
             /\ reason' = r.reason
             /\ func_sympy' = r.f
             /\ calls' = r.calls
    /\ pc' = "display"
    /\ UNCHANGED <<widgets, a_sym, b_sym, chart, screen>>

\* Lines 140-147: the verdict and the justification are rendered.
Display ==
    /\ pc = "display"
    /\ screen' = screen \o VerdictDisplay(result, reason)
    /\ pc' = IF ShouldPlot(func_sympy) THEN "plot" ELSE "done"
    /\ UNCHANGED <<widgets, outputs>>

(* Lines 148-195: the window is chosen, the function is sampled and the    *)
(* chart is rendered; an exception on the way is shown as an error.        *)
Plot ==
    /\ pc = "plot"
    /\ \E outcome \in {"ok", "raises"} :
         LET w == PlotWindow(a_sym, b_sym)
         IN  IF outcome = "ok"
             THEN /\ chart' = [lo |-> w.lo, hi |-> w.hi,
                               marker_a |-> MarkerAt(a_sym),
                               marker_b |-> MarkerAt(b_sym),
                               attempted |-> TRUE, drawn |-> TRUE]
                  /\ screen' = PlotSuccess(screen)
             ELSE /\ chart' = [lo |-> w.lo, hi |-> w.hi,
                               marker_a |-> FALSE, marker_b |-> FALSE,
                               attempted |-> TRUE, drawn |-> FALSE]
                  /\ screen' = PlotFailure(screen)
    /\ pc' = "done"
    /\ UNCHANGED <<widgets, a_sym, b_sym, engine, result, reason, func_sympy,
                   calls>>

\* The next interaction starts a fresh script run.
Rerun ==
    /\ pc \in {"done", "stopped"}
    /\ pc' = "idle"
    /\ a_sym' = NoValue
    /\ b_sym' = NoValue
    /\ engine' = NoEngine
    /\ result' = "unset"
    /\ reason' = NoReason
    /\ func_sympy' = NoneExpr
    /\ calls' = <<>>
    /\ chart' = NoChart
    /\ screen' = <<>>
    /\ UNCHANGED widgets

Next ==
    \/ \E f \in FuncTexts : EditFunction(f)
    \/ \E a \in BoundTexts : EditLower(a)
    \/ \E b \in BoundTexts : EditUpper(b)
    \/ \E t \in IntervalTypes : SelectType(t)
    \/ Submit
    \/ Classify
    \/ Display
    \/ Plot
    \/ Rerun

Spec == Init /\ [][Next]_vars

----------------------------------------------------------------------------
(* Properties.                                                             *)

\* check_uniform_continuity has returned in this run.
Classified == pc \in {"display", "plot", "done"}

FunctionParsed == ParseFunc(func_input).ok

ClosedTag == interval_type = "[a, b]"

BothFinite == is_real(a_sym) /\ is_real(b_sym)

\* p lies in [a_sym, b_sym], endpoints included.
Inside(p) == ExtLeq(a_sym, p) /\ ExtLeq(p, b_sym)

SingularInside == { p \in Discontinuities(engine.sing) : Inside(p) }

(* C1, as stated: with tag '[a, b]' and at least one infinite bound the    *)
(* verdict is "cannot classify" for every function input.                  *)
C1_CannotClassifyAnyInput ==
    (Classified /\ ClosedTag /\ (is_infinite(a_sym) \/ is_infinite(b_sym)))
        => result = "CANNOT"

(* C1, amended: with tag '[a, b]' and at least one infinite bound, every   *)
(* function text that parses gets the verdict "cannot classify" with the   *)
(* closed-interval justification and the parsed expression, whatever the   *)
(* engine answers; no limit is computed.                                   *)
C1_CannotClassifyParsed ==
    (Classified /\ ClosedTag /\ FunctionParsed
       /\ (is_infinite(a_sym) \/ is_infinite(b_sym)))
        => /\ result = "CANNOT"
           /\ reason = Reason("closed_infinite", <<>>, "")
           /\ func_sympy = Expr(func_input)
           /\ calls = <<"parse_expr", "singularities">>

C1_Witness ==
    /\ Classified
    /\ ClosedTag
    /\ FunctionParsed
    /\ is_infinite(a_sym)
    /\ is_real(b_sym)
    /\ ~engine.sing.raises
    /\ engine.sing.set # {}
    /\ result = "CANNOT"

C4_LeftEndpointShortCircuits ==
    /\ (Classified /\ FunctionParsed /\ interval_type \in {"(a, b)", "(a, b]"}
          /\ engine.lim_a = "infinite")
         => /\ result = "NOT_UC"
            /\ reason = Reason("left_diverges", <<latex(a_sym)>>, "")
            /\ \A i \in 1..Len(calls) : calls[i] # "limit_b"
    /\ \A i, j \in 1..Len(calls) :
         (calls[i] = "limit_a" /\ calls[j] = "limit_b") => i < j

C4_Witness ==
    /\ Classified
    /\ FunctionParsed
    /\ interval_type = "(a, b)"
    /\ a_sym = SymValue("Integer", 0)
    /\ b_sym = SymValue("Integer", 1)
    /\ engine.lim_a = "infinite"
    /\ engine.lim_b = "infinite"
    /\ result = "NOT_UC"

\* The two bound texts as parse_expr reads them.
ParsedLower == ParseBound(NormaliseBound(a_str))

ParsedUpper == ParseBound(NormaliseBound(b_str))

(* The values a and b are each real or infinite and, when both are        *)
(* finite, a < b.                                                          *)
BoundsValid(a, b) ==
    /\ is_real(a) \/ is_infinite(a)
    /\ is_real(b) \/ is_infinite(b)
    /\ (is_real(a) /\ is_real(b)) => NumLess(evalf(a), evalf(b))

(* C5: check_uniform_continuity is called only with the values the two     *)
(* bound texts parsed to, each real or infinite and, when both are finite, *)
(* a < b; a submission whose bound texts do not parse to such values shows *)
(* one inline error and stops with no verdict, no justification and no     *)
(* plot.                                                                   *)
C5_ValidatedBeforeClassification ==
    /\ pc \in {"classify", "display", "plot", "done"}
         => BoundsValid(a_sym, b_sym)
    /\ pc \in {"classify", "stopped"}
         => LET pa == ParsedLower
                pb == ParsedUpper
                valid == pa.ok /\ pb.ok /\ BoundsValid(pa.val, pb.val)
            IN  /\ pc = "classify"
                     => (valid /\ a_sym = pa.val /\ b_sym = pb.val)
                /\ ~valid => pc = "stopped"
    /\ pc = "stopped"
         => /\ Len(screen) = 1
            /\ screen[1].widget = "error"
            /\ result = "unset"
            /\ reason = NoReason
            /\ func_sympy = NoneExpr
            /\ calls = <<>>
            /\ ~chart.attempted

C5_Witness ==
    /\ pc = "stopped"
    /\ screen = <<Element("error", "order_error", NoReason)>>
    /\ is_real(ParsedLower.val)
    /\ is_real(ParsedUpper.val)
    /\ NumLess(evalf(ParsedUpper.val), evalf(ParsedLower.val))

\* The verdict banner and the justification head the page.
VerdictOnScreen(shown) ==
    /\ Len(shown) >= 3
    /\ shown[1].text = result
    /\ shown[1].widget \in {"success", "error", "warning"}
    /\ shown[3].widget = "info"
    /\ shown[3].reason = reason

(* C6: a function text that fails to parse gets the error verdict with the *)
(* parser's message in the justification and no expression, for every tag  *)
(* and every pair of bounds; the verdict and justification are displayed   *)
(* and the plot is never attempted. Every other verdict comes with the     *)
(* parsed expression.                                                      *)
C6_ParseFailureVerdict ==
    /\ (Classified /\ ~FunctionParsed)
         => /\ result = "ERROR"
            /\ reason = Reason("parse_error", <<>>, ParseFunc(func_input).msg)
            /\ func_sympy = NoneExpr
            /\ pc # "plot"
            /\ ~chart.attempted
            /\ pc = "done" => (VerdictOnScreen(screen) /\ Len(screen) = 3)
    /\ (Classified /\ result # "ERROR")
         => (FunctionParsed /\ func_sympy = Expr(func_input))

C6_Witness ==
    /\ pc = "done"
    /\ ~FunctionParsed
    /\ ClosedTag
    /\ is_infinite(a_sym)
    /\ result = "ERROR"
    /\ screen[1] = Element("warning", "ERROR", NoReason)

(* C7: the verdict banner and the justification are on the page before the *)
(* plot is attempted; the plotting step only appends to the page, so a     *)
(* plotting failure adds an error message of its own and leaves the        *)
(* verdict and the justification as they were.                             *)
C7_PlotKeepsVerdict ==
    /\ [](pc \in {"plot", "done"} => VerdictOnScreen(screen))
    /\ [][pc = "plot"
            => /\ pc' = "done"
               /\ result' = result
               /\ reason' = reason
               /\ Len(screen') = Len(screen) + 2
               /\ SubSeq(screen', 1, Len(screen)) = screen
               /\ screen'[Len(screen')].widget \in {"pyplot", "error"}
               /\ chart'.drawn <=> screen'[Len(screen')].widget = "pyplot"]_vars

C7_Witness ==
    /\ pc = "done"
    /\ chart.attempted
    /\ ~chart.drawn
    /\ Len(screen) = 5
    /\ VerdictOnScreen(screen)
    /\ screen[5] = Element("error", "plot_error", NoReason)

OpenLeft == interval_type \in {"(a, b)", "(a, b]"}

OpenRight == interval_type \in {"(a, b)", "[a, b)"}

(* C8: for the three non-closed tags and a parsed function, the verdict is *)
(* "not uniformly continuous" exactly when the tag has an open left        *)
(* endpoint with an infinite limit at a, or an open right endpoint with an *)
(* infinite limit at b; otherwise it is "uniformly continuous" with the    *)
(* finite-limits justification. The closed endpoint of a half-open tag is  *)
(* not examined and the singularity set does not matter.                   *)
C8_OpenEndpointVerdict ==
    (Classified /\ FunctionParsed /\ ~ClosedTag)
        => LET fired == \/ OpenLeft /\ engine.lim_a = "infinite"
                        \/ OpenRight /\ engine.lim_b = "infinite"
           IN  /\ result = "NOT_UC" <=> fired
               /\ ~fired => /\ result = "UC"
                            /\ reason = Reason("finite_limits", <<>>, "")
               /\ fired => reason.kind \in {"left_diverges", "right_diverges"}
               /\ ~OpenLeft => \A i \in 1..Len(calls) : calls[i] # "limit_a"
               /\ ~OpenRight => \A i \in 1..Len(calls) : calls[i] # "limit_b"

C8_Witness ==
    /\ Classified
    /\ FunctionParsed
    /\ interval_type = "[a, b)"
    /\ BothFinite
    /\ engine.lim_a = "infinite"
    /\ engine.lim_b = "finite"
    /\ SingularInside # {}
    /\ result = "UC"

\* The engine's answers with every raising call answering "nothing found".
Benign(eng) ==
    [sing  |-> IF eng.sing.raises THEN [raises |-> FALSE, set |-> {}] ELSE eng.sing,
     lim_a |-> IF eng.lim_a = "raises" THEN "finite" ELSE eng.lim_a,
     lim_b |-> IF eng.lim_b = "raises" THEN "finite" ELSE eng.lim_b]

\* The answers that agree with eng on every call that did not raise.
WithoutRaise(eng) ==
    { [sing |-> s, lim_a |-> la, lim_b |-> lb] :
        s \in (IF eng.sing.raises
               THEN [raises : {FALSE}, set : SUBSET Points]
               ELSE {eng.sing}),
        la \in (IF eng.lim_a = "raises" THEN LimOutcomes \ {"raises"}
                ELSE {eng.lim_a}),
        lb \in (IF eng.lim_b = "raises" THEN LimOutcomes \ {"raises"}
                ELSE {eng.lim_b}) }

VerdictWith(eng) ==
    check_uniform_continuity(func_input, interval_type, a_sym, b_sym, eng).result

C10_PlotWindow ==
    chart.attempted
        => /\ (is_infinite(a_sym) /\ is_infinite(b_sym))
                => (chart.lo = Num(0, -10000) /\ chart.hi = Num(0, 10000))
           /\ (is_infinite(a_sym) /\ ~is_infinite(b_sym))
                => /\ chart.hi = ToFloat(b_sym)
                   /\ chart.lo = FloatAdd(chart.hi, -20000)
           /\ (~is_infinite(a_sym) /\ is_infinite(b_sym))
                => /\ chart.lo = ToFloat(a_sym)
                   /\ chart.hi = FloatAdd(chart.lo, 20000)
           /\ (~is_infinite(a_sym) /\ ~is_infinite(b_sym))
                => (chart.lo = ToFloat(a_sym) /\ chart.hi = ToFloat(b_sym))
           /\ NumLess(chart.lo, chart.hi)
           /\ chart.drawn
                => /\ chart.marker_a <=> ~is_infinite(a_sym)
                   /\ chart.marker_b <=> ~is_infinite(b_sym)

====
